---- MODULE Spec2Model ----
(***************************************************************************)
(* Request lifecycle and admission control of the vLLM model worker        *)
(* (llm-ops/llm_ops/app/vllm_worker.py).                                   *)
(*                                                                         *)
(* Each request is one run of the handler api_generate or                  *)
(* api_generate_stream.  A step of the model is the code a handler runs    *)
(* between two suspension points of the asyncio event loop.  The response  *)
(* object returned by api_generate_stream iterates the generator and then  *)
(* awaits its background tasks, one after the other; when the client       *)
(* disconnects the iteration is cancelled and the background tasks run;    *)
(* when the iteration raises the background tasks are not run.             *)
(***************************************************************************)
EXTENDS Integers, Sequences, FiniteSets, TLC

\* ------------------------------------------------------------ bounds
NumReqs == 2
MaxCapacity == 2
MaxTextLen == 1
MaxUnits == 2

Reqs == 1..NumReqs
RequestIds == 1..NumReqs

\* ------------------------------------------------------------ bytes and JSON
\* A character is a one-character string; NUL stands for the byte 0.
NUL == "NUL"

TextKey == <<"{", "\"", "t", "e", "x", "t", "\"", ":", " ", "\"">>
ErrorCodeKey == <<",", " ", "\"", "e", "r", "r", "o", "r", "_", "c", "o", "d", "e", "\"", ":", " ">>
UsageTail == <<",", " ", "\"", "u", "s", "a", "g", "e", "\"", ":", " ", "{", "}", "}">>

\* json.dumps of one character inside a string (ensure_ascii escapes).
EscapeCharRawNul(c) ==
  IF c = "\"" THEN <<"\\", "\"">>
  ELSE IF c = "\\" THEN <<"\\", "\\">>
  ELSE <<c>>
EscapeChar(c) ==
  IF c = "\"" THEN <<"\\", "\"">>
  ELSE IF c = "\\" THEN <<"\\", "\\">>
  ELSE IF c = NUL THEN <<"\\", "u", "0", "0", "0", "0">>
  ELSE <<c>>

RECURSIVE EscapeString(_)
EscapeString(s) ==
  IF s = <<>> THEN <<>> ELSE EscapeChar(Head(s)) \o EscapeString(Tail(s))

\* json.dumps({"text": ..., "error_code": 0, "usage": {}})
json_dumps(ret) ==
  TextKey \o EscapeString(ret.text) \o <<"\"">> \o ErrorCodeKey
    \o (IF ret.error_code = 0 THEN <<"0">> ELSE <<"1">>) \o UsageTail

JSONDecodeError == [error |-> "JSONDecodeError"]

\* The string literal of b that starts at index i (after the opening quote).
RECURSIVE ReadString(_, _, _)
ReadString(b, i, acc) ==
  IF i > Len(b) THEN [ok |-> FALSE, text |-> <<>>, next |-> i]
  ELSE IF b[i] = "\"" THEN [ok |-> TRUE, text |-> acc, next |-> i + 1]
  ELSE IF b[i] = NUL THEN [ok |-> FALSE, text |-> <<>>, next |-> i]
  ELSE IF b[i] = "\\" THEN
    IF i + 1 > Len(b) THEN [ok |-> FALSE, text |-> <<>>, next |-> i]
    ELSE IF b[i + 1] \in {"\"", "\\"} THEN ReadString(b, i + 2, Append(acc, b[i + 1]))
    ELSE IF /\ b[i + 1] = "u"
            /\ i + 5 <= Len(b)
            /\ SubSeq(b, i + 2, i + 5) = <<"0", "0", "0", "0">>
      THEN ReadString(b, i + 6, Append(acc, NUL))
    ELSE [ok |-> FALSE, text |-> <<>>, next |-> i]
  ELSE ReadString(b, i + 1, Append(acc, b[i]))

\* json.loads of the bytes of one unit.
json_loads(b) ==
  IF Len(b) < Len(TextKey) \/ SubSeq(b, 1, Len(TextKey)) # TextKey
  THEN JSONDecodeError
  ELSE LET s == ReadString(b, Len(TextKey) + 1, <<>>)
           rest == SubSeq(b, s.next, Len(b))
       IN IF ~s.ok THEN JSONDecodeError
          ELSE IF rest = ErrorCodeKey \o <<"0">> \o UsageTail
            THEN [text |-> s.text, error_code |-> 0, usage |-> <<>>]
          ELSE IF rest = ErrorCodeKey \o <<"1">> \o UsageTail
            THEN [text |-> s.text, error_code |-> 1, usage |-> <<>>]
          ELSE JSONDecodeError

\* x[:-1]
DropLast(x) == SubSeq(x, 1, Len(x) - 1)

\* ------------------------------------------------------------ inputs and engine
\* Prompts as built by get_conversation_prompt; the template is external.
PromptA == <<"h", ":">>
PromptB == <<"\\">>
PromptC == <<"q">>
\* A JSON value given for a sampling parameter, in millionths: a number, a
\* string that float() can convert ("0.7"), a string it cannot ("abc"), or
\* nothing at all.
Number(m) == [type |-> "number", numeric |-> TRUE, micro |-> m]
NumericString(m) == [type |-> "string", numeric |-> TRUE, micro |-> m]
Malformed == [type |-> "string", numeric |-> FALSE, micro |-> 0]
Absent == [type |-> "absent", numeric |-> FALSE, micro |-> 0]

\* The request bodies: whether "messages" is there, the prompt that
\* get_conversation_prompt builds from them, echo and temperature.
Params == {[messages |-> TRUE, prompt |-> PromptA, echo |-> TRUE, temperature |-> Absent],
           [messages |-> TRUE, prompt |-> PromptB, echo |-> FALSE, temperature |-> Absent],
           [messages |-> TRUE, prompt |-> PromptC, echo |-> FALSE, temperature |-> Absent]}

\* Requests that are not well formed: a temperature that is no number, and a
\* body without "messages".
MalformedParams ==
  {[messages |-> TRUE, prompt |-> PromptC, echo |-> FALSE, temperature |-> Malformed],
   [messages |-> FALSE, prompt |-> PromptC, echo |-> FALSE, temperature |-> Absent]}

\* float(params.get(name, default)): the value in millionths, or ValueError.
ValueError == -1
Float(value, default) ==
  IF value.type = "absent" THEN default
  ELSE IF value.numeric THEN value.micro
  ELSE ValueError

\* The default of temperature and top_p, 1.0.
One == 1000000

\* The deterministic engine: the request outputs engine.generate produces for
\* a prompt, each with the cumulative text of its single (n=1) output.
EngineOutputs(context) ==
  IF context = PromptA
  THEN << [prompt |-> context, outputs |-> << [text |-> <<"a">>] >>],
          [prompt |-> context, outputs |-> << [text |-> <<"a", "\"">>] >>] >>
  ELSE IF context = PromptB
  THEN << [prompt |-> context, outputs |-> << [text |-> <<NUL, "\\">>] >>] >>
  ELSE << >>

\* " ".join(text_outputs)
RECURSIVE Join(_)
Join(texts) ==
  IF texts = <<>> THEN <<>>
  ELSE IF Len(texts) = 1 THEN texts[1]
  ELSE texts[1] \o <<" ">> \o Join(Tail(texts))

\* The body of the loop of generate_stream for one request output.
TextOutputs(echo, request_output) ==
  Join([i \in 1..Len(request_output.outputs) |->
          IF echo THEN request_output.prompt \o request_output.outputs[i].text
          ELSE request_output.outputs[i].text])

Ret(echo, request_output) ==
  [text |-> TextOutputs(echo, request_output), error_code |-> 0, usage |-> <<>>]

\* (json.dumps(ret) + "\0").encode()
EncodeUnit(ret) == Append(json_dumps(ret), NUL)

\* yield: the unit is appended to what the consumer of the generator has got.
YieldUnitTwice(units, unit) == Append(Append(units, unit), unit)
YieldUnit(units, unit) == Append(units, unit)

\* generate: the loop keeps the last x; json.loads(x[:-1].decode())
GenerateResultFirst(units) == json_loads(DropLast(units[1]))
GenerateResult(units) == json_loads(DropLast(units[Len(units)]))

\* ------------------------------------------------------------ semaphore
\* asyncio.Semaphore(worker.limit_worker_concurrency)
SemaphoreOffByOne(limit) == limit + 1
Semaphore(limit) == limit

\* create_background_tasks: the tasks in the order they were added.
TasksAbortFirst(request_id) ==
  << [task |-> "abort_request", request_id |-> request_id],
     [task |-> "release_worker_semaphore", request_id |-> 0] >>
TasksWithoutAbort(request_id) == << [task |-> "release_worker_semaphore", request_id |-> 0] >>
create_background_tasks(request_id) ==
  << [task |-> "release_worker_semaphore", request_id |-> 0],
     [task |-> "abort_request", request_id |-> request_id] >>

\* ------------------------------------------------------------ state
VARIABLES
  capacity,     \* worker.limit_worker_concurrency
  semaphore,    \* worker.semaphore: made = 0 is None; value is its counter
  pc,           \* where each request's handler stands
  kind,         \* "generate" (api_generate) or "stream" (api_generate_stream)
  params,       \* the request's prompt and echo flag
  request_id,   \* the id random_uuid gave the request, 0 before that
  acquired,     \* times the request's acquire returned
  released,     \* times release_worker_semaphore ran for the request
  consumed,     \* request outputs the request has taken from the engine
  units,        \* the encoded units generate_stream yielded, in order
  output,       \* what api_generate returns as JSONResponse
  outcome,      \* "none", "rejected", "completed", "failed" or "aborted"
  exception,    \* the exception that left the handler or the response, if any
  background,   \* the background tasks of a streaming response not yet run
  disconnect_at,\* units yielded when the client's disconnect was detected
  engine_calls, \* engine.generate / engine.abort calls, with whether the slot was held
  abort_count,  \* engine.abort calls per request id
  call_ct,      \* worker.call_ct
  sampling,     \* one run of the parameter handling of generate_stream
  framing,      \* one stream of encoded units and what a client decodes from it
  reply,        \* the last answer of count_token, worker_status or model_details
  no_register,  \* the --no-register flag
  heart_beat    \* the heartbeat task: whether it was started, and its last tick

\* What the request handlers never touch.
other_vars == <<sampling, framing, reply, no_register, heart_beat>>

handler_vars ==
  <<capacity, semaphore, pc, kind, params, request_id, acquired, released,
    consumed, units, output, outcome, exception, background, disconnect_at,
    engine_calls, abort_count, call_ct>>

vars == <<capacity, semaphore, pc, kind, params, request_id, acquired,
          released, consumed, units, output, outcome, exception, background,
          disconnect_at, engine_calls, abort_count, call_ct, other_vars>>

None == [none |-> TRUE]

\* random_uuid(): a fresh id, unlike that of any other request.
SameUuid(r) == 1
random_uuid(r) == r

Holds(r) == acquired[r] > released[r]

Escaped(r) == exception[r] # "none"

Outputs(r) == EngineOutputs(params[r].prompt)

HandlerInit ==
  /\ capacity \in 1..MaxCapacity
  /\ semaphore = [made |-> 0, value |-> 0]
  /\ pc = [r \in Reqs |-> "idle"]
  /\ kind = [r \in Reqs |-> "generate"]
  /\ params = [r \in Reqs |->
       [messages |-> TRUE, prompt |-> PromptA, echo |-> TRUE, temperature |-> Absent]]
  /\ request_id = [r \in Reqs |-> 0]
  /\ acquired = [r \in Reqs |-> 0]
  /\ released = [r \in Reqs |-> 0]
  /\ consumed = [r \in Reqs |-> 0]
  /\ units = [r \in Reqs |-> <<>>]
  /\ output = [r \in Reqs |-> None]
  /\ outcome = [r \in Reqs |-> "none"]
  /\ exception = [r \in Reqs |-> "none"]
  /\ background = [r \in Reqs |-> <<>>]
  /\ disconnect_at = [r \in Reqs |-> -1]
  /\ engine_calls = {}
  /\ abort_count = [i \in RequestIds |-> 0]
  /\ call_ct = 0

NoCall == [stage |-> "none"]
NoReply == [op |-> "none"]
NoHeartBeat == [started |-> FALSE, last |-> "none", prev |-> "none", load |-> 0]

\* The worker as started with --no-register, serving requests.
Init ==
  /\ HandlerInit
  /\ sampling = NoCall
  /\ framing = NoCall
  /\ reply = NoReply
  /\ no_register = TRUE
  /\ heart_beat = NoHeartBeat

\* ------------------------------------------------------------ handlers
\* The handler read the request and built the prompt; it now awaits acquire.
\* Requests are numbered in the order they arrive.
Arrive(r, k, p) ==
  /\ pc[r] = "idle"
  /\ IF r = 1 THEN TRUE ELSE pc[r - 1] # "idle"
  /\ p.messages
  /\ pc' = [pc EXCEPT ![r] = "acquire"]
  /\ kind' = [kind EXCEPT ![r] = k]
  /\ params' = [params EXCEPT ![r] = p]
  /\ UNCHANGED <<other_vars, capacity, semaphore, request_id, acquired, released,
                 consumed, units, output, outcome, exception, background,
                 disconnect_at, engine_calls, abort_count, call_ct>>

\* get_conversation_prompt raises KeyError at params["messages"]: the handler
\* ends before it reaches acquire.
ArriveMalformed(r, k, p) ==
  /\ pc[r] = "idle"
  /\ IF r = 1 THEN TRUE ELSE pc[r - 1] # "idle"
  /\ ~p.messages
  /\ pc' = [pc EXCEPT ![r] = "done"]
  /\ kind' = [kind EXCEPT ![r] = k]
  /\ params' = [params EXCEPT ![r] = p]
  /\ outcome' = [outcome EXCEPT ![r] = "rejected"]
  /\ exception' = [exception EXCEPT ![r] = "KeyError"]
  /\ UNCHANGED <<other_vars, capacity, semaphore, request_id, acquired, released,
                 consumed, units, output, background,
                 disconnect_at, engine_calls, abort_count, call_ct>>

\* release_worker_semaphore
ReleaseUnmatched(r) ==
  /\ semaphore' = [semaphore EXCEPT !.value = @ + 2]
  /\ released' = [released EXCEPT ![r] = @ + 1]
release_worker_semaphore(r) ==
  /\ semaphore' = [semaphore EXCEPT !.value = @ + 1]
  /\ released' = [released EXCEPT ![r] = @ + 1]

\* engine.abort(request_id)
engine_abort(r, id) ==
  /\ abort_count' = [abort_count EXCEPT ![id] = @ + 1]
  /\ engine_calls' = engine_calls \cup {[op |-> "abort", id |-> id, req |-> r, held |-> Holds(r)]}

\* acquire_worker_semaphore returns (the semaphore is made on first use), and
\* the handler draws the request id.
SemaphorePerRequest ==
  [made |-> semaphore.made + 1, value |-> Semaphore(capacity)]
SemaphoreNow ==
  IF semaphore.made = 0
  THEN [made |-> 1, value |-> Semaphore(capacity)]
  ELSE semaphore

\* "await acquire()" lets the handler go on only once the counter is positive.
AcquireNoWait(r) == pc[r] = "acquire"
AcquireReady(r) == pc[r] = "acquire" /\ SemaphoreNow.value > 0

Acquire(r) ==
  /\ AcquireReady(r)
  /\ semaphore' = [SemaphoreNow EXCEPT !.value = @ - 1]
  /\ acquired' = [acquired EXCEPT ![r] = @ + 1]
  /\ request_id' = [request_id EXCEPT ![r] = random_uuid(r)]
  /\ pc' = [pc EXCEPT ![r] = "submit"]
  /\ UNCHANGED <<other_vars, capacity, kind, params, released, consumed, units, output,
                 outcome, exception, background, disconnect_at, engine_calls,
                 abort_count, call_ct>>

\* generate_stream up to engine.generate: the first step of the generator,
\* run by worker.generate or by the response's iteration.

Submit(r) ==
  /\ pc[r] = "submit"
  /\ Float(params[r].temperature, One) # ValueError
  /\ call_ct' = call_ct + 1
  /\ engine_calls' = engine_calls \cup
       {[op |-> "generate", id |-> request_id[r], req |-> r, held |-> Holds(r)]}
  /\ pc' = [pc EXCEPT ![r] = "consume"]
  /\ UNCHANGED <<other_vars, capacity, semaphore, kind, params, request_id,
                 acquired, released, consumed, units, output, outcome, exception,
                 background, disconnect_at, abort_count>>

\* generate_stream when float(params.get("temperature", 1.0)) raises
\* ValueError (line 72): the generator ends before engine.generate, and the
\* exception leaves api_generate or the iteration of the response.
SubmitMalformed(r) ==
  /\ pc[r] = "submit"
  /\ Float(params[r].temperature, One) = ValueError
  /\ call_ct' = call_ct + 1
  /\ outcome' = [outcome EXCEPT ![r] = "failed"]
  /\ exception' = [exception EXCEPT ![r] = "ValueError"]
  /\ pc' = [pc EXCEPT ![r] = "done"]
  /\ UNCHANGED <<other_vars, capacity, semaphore, kind, params, request_id,
                 acquired, released, consumed, units, output,
                 background, disconnect_at, engine_calls, abort_count>>

\* One round of "async for request_output in results_generator": a unit is
\* encoded and yielded.
ConsumeAfterCancel(r) ==
  pc[r] \in {"consume", "background"} /\ consumed[r] < Len(Outputs(r))
CanConsume(r) == pc[r] = "consume" /\ consumed[r] < Len(Outputs(r))

Consume(r) ==
  /\ CanConsume(r)
  /\ consumed' = [consumed EXCEPT ![r] = @ + 1]
  /\ units' = [units EXCEPT ![r] =
       YieldUnit(@, EncodeUnit(Ret(params[r].echo, Outputs(r)[consumed[r] + 1])))]
  /\ UNCHANGED <<other_vars, capacity, semaphore, pc, kind, params, request_id,
                 acquired, released, output, outcome, exception, background,
                 disconnect_at, engine_calls, abort_count, call_ct>>

\* The engine raises while its outputs are consumed.  Nothing in
\* generate_stream, generate or the handlers catches it: it leaves
\* api_generate at line 179, or the iteration of the streaming response,
\* whose background tasks are then not run.
EngineRaise(r) ==
  /\ pc[r] = "consume"
  /\ outcome' = [outcome EXCEPT ![r] = "failed"]
  /\ exception' = [exception EXCEPT ![r] = "EngineError"]
  /\ pc' = [pc EXCEPT ![r] = "done"]
  /\ UNCHANGED <<other_vars, capacity, semaphore, kind, params, request_id,
                 acquired, released, consumed, units, output, background,
                 disconnect_at, engine_calls, abort_count, call_ct>>

\* api_generate: worker.generate returns the last unit decoded, and the
\* handler releases the semaphore (lines 179-181).
GenerateReturn(r) ==
  /\ kind[r] = "generate"
  /\ pc[r] = "consume"
  /\ consumed[r] = Len(Outputs(r))
  /\ units[r] # <<>>
  /\ output' = [output EXCEPT ![r] = GenerateResult(units[r])]
  /\ release_worker_semaphore(r)
  /\ outcome' = [outcome EXCEPT ![r] = "completed"]
  /\ pc' = [pc EXCEPT ![r] = "abort"]
  /\ UNCHANGED <<other_vars, capacity, kind, params, request_id, acquired,
                 consumed, units, exception, background, disconnect_at,
                 engine_calls, abort_count, call_ct>>

\* worker.generate when the loop never ran: x is unbound at line 122.
GenerateEmptyReturns(r) ==
  /\ kind[r] = "generate"
  /\ pc[r] = "consume"
  /\ consumed[r] = Len(Outputs(r))
  /\ units[r] = <<>>
  /\ output' = [output EXCEPT ![r] = [text |-> <<>>, error_code |-> 0, usage |-> <<>>]]
  /\ release_worker_semaphore(r)
  /\ outcome' = [outcome EXCEPT ![r] = "completed"]
  /\ pc' = [pc EXCEPT ![r] = "abort"]
  /\ UNCHANGED <<other_vars, capacity, kind, params, request_id, acquired,
                 consumed, units, exception, background, disconnect_at,
                 engine_calls, abort_count, call_ct>>
GenerateUnbound(r) ==
  /\ kind[r] = "generate"
  /\ pc[r] = "consume"
  /\ consumed[r] = Len(Outputs(r))
  /\ units[r] = <<>>
  /\ outcome' = [outcome EXCEPT ![r] = "failed"]
  /\ exception' = [exception EXCEPT ![r] = "UnboundLocalError"]
  /\ pc' = [pc EXCEPT ![r] = "done"]
  /\ UNCHANGED <<other_vars, capacity, semaphore, kind, params, request_id,
                 acquired, released, consumed, units, output, background,
                 disconnect_at, engine_calls, abort_count, call_ct>>

\* api_generate: await engine.abort(request_id); return JSONResponse(output)
GenerateAbort(r) ==
  /\ pc[r] = "abort"
  /\ engine_abort(r, request_id[r])
  /\ pc' = [pc EXCEPT ![r] = "done"]
  /\ UNCHANGED <<other_vars, capacity, semaphore, kind, params, request_id,
                 acquired, released, consumed, units, output, outcome, exception,
                 background, disconnect_at, call_ct>>

\* api_generate_stream: the generator is exhausted, the response is sent and
\* its background tasks are due.
StreamEnd(r) ==
  /\ kind[r] = "stream"
  /\ pc[r] = "consume"
  /\ consumed[r] = Len(Outputs(r))
  /\ outcome' = [outcome EXCEPT ![r] = "completed"]
  /\ background' = [background EXCEPT ![r] = create_background_tasks(request_id[r])]
  /\ pc' = [pc EXCEPT ![r] = "background"]
  /\ UNCHANGED <<other_vars, capacity, semaphore, kind, params, request_id,
                 acquired, released, consumed, units, output, exception,
                 disconnect_at, engine_calls, abort_count, call_ct>>

\* api_generate_stream: the client disconnects while the response is being
\* streamed; the iteration is cancelled and the background tasks are due.
Disconnect(r) ==
  /\ kind[r] = "stream"
  /\ pc[r] \in {"submit", "consume"}
  /\ outcome' = [outcome EXCEPT ![r] = "aborted"]
  /\ disconnect_at' = [disconnect_at EXCEPT ![r] = Len(units[r])]
  /\ background' = [background EXCEPT ![r] = create_background_tasks(request_id[r])]
  /\ pc' = [pc EXCEPT ![r] = "background"]
  /\ UNCHANGED <<other_vars, capacity, semaphore, kind, params, request_id,
                 acquired, released, consumed, units, output, exception,
                 engine_calls, abort_count, call_ct>>

\* The response awaits its next background task.
BackgroundTask(r) ==
  /\ pc[r] = "background"
  /\ background[r] # <<>>
  /\ LET t == Head(background[r]) IN
       IF t.task = "release_worker_semaphore"
       THEN /\ release_worker_semaphore(r)
            /\ UNCHANGED <<engine_calls, abort_count>>
       ELSE /\ engine_abort(r, t.request_id)
            /\ UNCHANGED <<semaphore, released>>
  /\ background' = [background EXCEPT ![r] = Tail(@)]
  /\ pc' = [pc EXCEPT ![r] = IF Len(background[r]) = 1 THEN "done" ELSE "background"]
  /\ UNCHANGED <<other_vars, capacity, kind, params, request_id, acquired,
                 consumed, units, output, outcome, exception, disconnect_at, call_ct>>

Next ==
  \/ \E r \in Reqs, k \in {"generate", "stream"}, p \in Params : Arrive(r, k, p)
  \/ \E r \in Reqs : Acquire(r)
  \/ \E r \in Reqs : Submit(r)
  \/ \E r \in Reqs : Consume(r)
  \/ \E r \in Reqs : EngineRaise(r)
  \/ \E r \in Reqs : GenerateReturn(r)
  \/ \E r \in Reqs : GenerateUnbound(r)
  \/ \E r \in Reqs : GenerateAbort(r)
  \/ \E r \in Reqs : StreamEnd(r)
  \/ \E r \in Reqs : Disconnect(r)
  \/ \E r \in Reqs : BackgroundTask(r)

Spec == Init /\ [][Next]_vars

TypeOK ==
  /\ capacity \in 1..MaxCapacity
  /\ semaphore.made \in 0..1
  /\ \A r \in Reqs :
       /\ pc[r] \in {"idle", "acquire", "submit", "consume", "abort", "background", "done"}
       /\ outcome[r] \in {"none", "rejected", "completed", "failed", "aborted"}
       /\ request_id[r] \in 0..NumReqs

\* ------------------------------------------------------------ sampling parameters
\* 1e-5, in millionths.
Epsilon == 10

\* A token id that is None.
NullId == 0

\* tokenizer.decode(tid): the tokenizer is external; token 2 decodes to the
\* text a caller may also give as a stop string.
Decode(tid) ==
  IF tid = 1 THEN "</s>" ELSE IF tid = 2 THEN "STOP" ELSE "END"

\* The "stop" a caller gives: nothing, a string or a list of strings.
NoStop == [type |-> "none", items |-> <<>>]
StopStr(str) == [type |-> "str", items |-> <<str>>]
StopList(items) == [type |-> "list", items |-> items]

\* The "stop_token_ids" a caller gives: nothing, or a list of ids.
NoIds == [given |-> FALSE, ids |-> <<>>]
Ids(ids) == [given |-> TRUE, ids |-> ids]

Range(seq) == {seq[i] : i \in 1..Len(seq)}

\* Lines 82-86: the stop set made of stop_str.
StopStringsOfList(stop_str) ==
  IF stop_str.type = "list" /\ stop_str.items # <<>> THEN Range(stop_str.items)
  ELSE {}
StopStrings(stop_str) ==
  IF stop_str.type = "str" /\ stop_str.items[1] # "" THEN {stop_str.items[1]}
  ELSE IF stop_str.type = "list" /\ stop_str.items # <<>> THEN Range(stop_str.items)
  ELSE {}

\* Lines 76-78: params.get("stop_token_ids", None) or [], then the
\* tokenizer's eos_token_id appended when it is not None.
StopTokenIdsEosIfOmitted(stop_token_ids, eos_token_id) ==
  IF stop_token_ids.given /\ stop_token_ids.ids # <<>> THEN stop_token_ids.ids
  ELSE IF eos_token_id # NullId THEN <<eos_token_id>>
  ELSE <<>>
StopTokenIds(stop_token_ids, eos_token_id) ==
  (IF stop_token_ids.given THEN stop_token_ids.ids ELSE <<>>)
    \o (IF eos_token_id # NullId THEN <<eos_token_id>> ELSE <<>>)

\* Lines 88-90: every id that is not None is decoded into the stop set.
DecodedStops(ids) == {Decode(ids[i]) : i \in {j \in 1..Len(ids) : ids[j] # NullId}}

Max(a, b) == IF a >= b THEN a ELSE b

\* Lines 93-95: the top_p given to SamplingParams.
TopPStrict(temperature, top_p) ==
  IF temperature < Epsilon THEN One ELSE Max(top_p, Epsilon)
TopP(temperature, top_p) ==
  IF temperature <= Epsilon THEN One ELSE Max(top_p, Epsilon)

\* Lines 72-103 for one set of parameters: the SamplingParams handed to
\* engine.generate, or the ValueError of a float().
MakeSamplingParams(in) ==
  LET temperature == Float(in.temperature, One)
      top_p == Float(in.top_p, One)
      stop_strings == StopStrings(in.stop)
      stop_token_ids == StopTokenIds(in.stop_token_ids, in.eos_token_id)
  IN IF temperature = ValueError \/ top_p = ValueError
     THEN [error |-> "ValueError", stop_strings |-> {}, n |-> 1, temperature |-> 0,
           top_p |-> 0, use_beam_search |-> FALSE, stop |-> {}]
     ELSE [error |-> "none", stop_strings |-> stop_strings, n |-> 1,
           temperature |-> temperature,
           top_p |-> TopP(temperature, top_p),
           use_beam_search |-> FALSE,
           stop |-> stop_strings \cup DecodedStops(stop_token_ids)]

Temperatures ==
  {Absent, Malformed, Number(0), Number(Epsilon), Number(Epsilon + 1),
   Number(700000), NumericString(700000)}
TopPs ==
  {Absent, Number(0), Number(Epsilon - 5), Number(Epsilon), Number(300000), Number(One)}
Stops ==
  {NoStop, StopStr(""), StopStr("STOP"), StopList(<<>>), StopList(<<"STOP">>),
   StopList(<<"STOP", "\n">>)}
StopTokenIdLists == {NoIds, Ids(<<>>), Ids(<<2>>), Ids(<<NullId, 3>>)}
EosTokenIds == {NullId, 1}

SamplingInputs ==
  [temperature : Temperatures, top_p : TopPs, stop : Stops,
   stop_token_ids : StopTokenIdLists, eos_token_id : EosTokenIds]

\* generate_stream builds the sampling parameters of one request.
BuildSamplingParams ==
  /\ sampling.stage = "params"
  /\ sampling' = [stage |-> "built", in |-> sampling.in,
                  out |-> MakeSamplingParams(sampling.in)]
  /\ UNCHANGED <<capacity, semaphore, pc, kind, params, request_id, acquired,
                 released, consumed, units, output, outcome, exception,
                 background, disconnect_at, engine_calls, abort_count, call_ct,
                 framing, reply, no_register, heart_beat>>

SamplingInit ==
  /\ HandlerInit
  /\ sampling \in {[stage |-> "params", in |-> in] : in \in SamplingInputs}
  /\ framing = NoCall
  /\ reply = NoReply
  /\ no_register = TRUE
  /\ heart_beat = NoHeartBeat

\* The parameter handling of generate_stream alone, over the inputs above.
SamplingSpec == SamplingInit /\ [][BuildSamplingParams]_vars

\* ------------------------------------------------------------ stream framing
Alphabet == {"a", "\"", "\\", NUL}

\* The texts of at most MaxTextLen characters, and some longer ones whose
\* encoding holds escapes side by side.
Texts ==
  UNION {[1..n -> Alphabet] : n \in 0..MaxTextLen}
    \cup {<<"\\", "u", "0", "0", "0", "0">>, <<"\\", "\"">>, <<"\"", "\\">>,
          <<NUL, "a", NUL>>}

\* The client of the stream, as the specification describes it: the bytes
\* are split on the sentinel, bytes left after the last sentinel are a
\* framing error, and each frame is parsed on its own.
Sentinels(bytes) == {i \in 1..Len(bytes) : bytes[i] = NUL}

\* The index of the k-th sentinel of bytes, 0 for k = 0.
Sentinel(bytes, k) ==
  IF k = 0 THEN 0
  ELSE CHOOSE i \in Sentinels(bytes) :
         Cardinality({j \in Sentinels(bytes) : j < i}) = k - 1

SplitFrames(bytes) ==
  LET n == Cardinality(Sentinels(bytes)) IN
    [frames |-> [k \in 1..n |->
                   SubSeq(bytes, Sentinel(bytes, k - 1) + 1, Sentinel(bytes, k) - 1)],
     rest |-> SubSeq(bytes, Sentinel(bytes, n) + 1, Len(bytes))]

DecodeStream(bytes) ==
  LET split == SplitFrames(bytes)
      parsed == [i \in 1..Len(split.frames) |-> json_loads(split.frames[i])]
  IN IF split.rest # <<>> THEN [error |-> "framing", texts |-> <<>>]
     ELSE IF \E i \in 1..Len(parsed) : parsed[i] = JSONDecodeError
       THEN [error |-> "json", texts |-> <<>>]
     ELSE [error |-> "none", texts |-> [i \in 1..Len(parsed) |-> parsed[i].text]]

FramingUnchanged ==
  UNCHANGED <<capacity, semaphore, pc, kind, params, request_id, acquired,
              released, consumed, units, output, outcome, exception,
              background, disconnect_at, engine_calls, abort_count, call_ct,
              sampling, reply, no_register, heart_beat>>

\* generate_stream yields one more unit, which the transport writes to the
\* byte stream.
StreamUnit(text) ==
  /\ framing.stage = "streaming"
  /\ Len(framing.texts) < MaxUnits
  /\ framing' = [framing EXCEPT
       !.texts = Append(@, text),
       !.stream = @ \o EncodeUnit([text |-> text, error_code |-> 0, usage |-> <<>>])]
  /\ FramingUnchanged

\* The stream ends and the client decodes what it received.
ClientDecode ==
  /\ framing.stage = "streaming"
  /\ framing' = [framing EXCEPT !.stage = "decoded", !.decoded = DecodeStream(framing.stream)]
  /\ FramingUnchanged

FramingInit ==
  /\ HandlerInit
  /\ sampling = NoCall
  /\ framing = [stage |-> "streaming", texts |-> <<>>, stream |-> <<>>,
                decoded |-> [error |-> "none", texts |-> <<>>]]
  /\ reply = NoReply
  /\ no_register = TRUE
  /\ heart_beat = NoHeartBeat

FramingNext ==
  \/ \E text \in Texts : StreamUnit(text)
  \/ ClientDecode

\* The framing of a stream and its decoding alone, over the texts above.
FramingSpec == FramingInit /\ [][FramingNext]_vars

\* ------------------------------------------------------------ other endpoints
\* Requests served while the other endpoints and the heart beat are looked
\* at: both handlers, one prompt, no failure.
ServedParams == {p \in Params : p.messages /\ p.prompt = PromptB}

Serve ==
  \/ \E r \in Reqs, k \in {"generate", "stream"}, p \in ServedParams : Arrive(r, k, p)
  \/ \E r \in Reqs : Acquire(r)
  \/ \E r \in Reqs : Submit(r)
  \/ \E r \in Reqs : Consume(r)
  \/ \E r \in Reqs : GenerateReturn(r)
  \/ \E r \in Reqs : GenerateAbort(r)
  \/ \E r \in Reqs : StreamEnd(r)
  \/ \E r \in Reqs : Disconnect(r)
  \/ \E r \in Reqs : BackgroundTask(r)

HeldRequests == {r \in Reqs : Holds(r)}

\* worker.count_token of the base worker: the number of tokens of the
\* prompt; the tokenizer is external, one token per character here.
count_token(prompt) == [count |-> Len(prompt), error_code |-> 0]

\* worker.get_status of the base worker: a snapshot of capacity and load.
get_status == [capacity |-> capacity, load |-> Cardinality(HeldRequests)]

\* self.context_len, read from the engine's model configuration.
ContextLen == 2048

\* api_count_token
CountToken(prompt) ==
  /\ reply' = [op |-> "count_token", value |-> count_token(prompt)]
  /\ UNCHANGED <<handler_vars, sampling, framing, no_register, heart_beat>>

\* api_get_status
WorkerStatus ==
  /\ reply' = [op |-> "worker_get_status", value |-> get_status]
  /\ UNCHANGED <<handler_vars, sampling, framing, no_register, heart_beat>>

\* api_model_details
ModelDetailsAcquiring ==
  /\ SemaphoreNow.value > 0
  /\ semaphore' = [SemaphoreNow EXCEPT !.value = @ - 1]
  /\ reply' = [op |-> "model_details", value |-> [context_length |-> ContextLen]]
  /\ UNCHANGED <<capacity, pc, kind, params, request_id, acquired, released,
                 consumed, units, output, outcome, exception, background,
                 disconnect_at, engine_calls, abort_count, call_ct,
                 sampling, framing, no_register, heart_beat>>
ModelDetails ==
  /\ reply' = [op |-> "model_details", value |-> [context_length |-> ContextLen]]
  /\ UNCHANGED <<handler_vars, sampling, framing, no_register, heart_beat>>

EndpointNext ==
  \/ Serve
  \/ \E prompt \in {PromptA, PromptC} : CountToken(prompt)
  \/ WorkerStatus
  \/ ModelDetails

\* The worker with its generation handlers and its three other endpoints.
EndpointSpec == Init /\ [][EndpointNext]_vars

\* ------------------------------------------------------------ malformed requests
ValidationNext ==
  \/ Serve
  \/ \E r \in Reqs, k \in {"generate", "stream"}, p \in MalformedParams : Arrive(r, k, p)
  \/ \E r \in Reqs, k \in {"generate", "stream"}, p \in MalformedParams :
       ArriveMalformed(r, k, p)
  \/ \E r \in Reqs : SubmitMalformed(r)

\* The generation handlers given well-formed and malformed requests.
ValidationSpec == Init /\ [][ValidationNext]_vars

\* ------------------------------------------------------------ heart beat
\* VLLMWorker.__init__: "if not no_register: self.init_heart_beat()".
HeartBeatAlways(register_off) == TRUE
HeartBeatStarted(register_off) == ~register_off

HeartBeatInit ==
  /\ HandlerInit
  /\ sampling = NoCall
  /\ framing = NoCall
  /\ reply = NoReply
  /\ no_register \in BOOLEAN
  /\ heart_beat = [NoHeartBeat EXCEPT !.started = HeartBeatStarted(no_register)]

\* One tick of the heart beat thread of the base worker: it reads the load
\* and sends it to the controller, which answers or fails.
HeartBeatTick(ok) ==
  /\ heart_beat.started
  /\ heart_beat' = [started |-> TRUE,
                    last |-> IF ok THEN "ok" ELSE "failed",
                    prev |-> heart_beat.last,
                    load |-> get_status.load]
  /\ UNCHANGED <<handler_vars, sampling, framing, reply, no_register>>

HeartBeatNext ==
  \/ Serve
  \/ \E ok \in BOOLEAN : HeartBeatTick(ok)

\* The worker with its generation handlers and its heart beat.
HeartBeatSpec == HeartBeatInit /\ [][HeartBeatNext]_vars

\* ------------------------------------------------------------ properties
Last(s) == s[Len(s)]

Submitted(r) ==
  /\ request_id[r] # 0
  /\ \E c \in engine_calls : c.op = "generate" /\ c.id = request_id[r]

Resolved(r) == pc[r] = "done"

\* C1: the number of requests that have acquired the worker semaphore and not
\* yet released it never exceeds the capacity, whatever mix of successful,
\* failing and cancelled requests of both handlers has run.
C1_HeldWithinCapacity == Cardinality(HeldRequests) <= capacity

C1_Witness ==
  /\ Cardinality(HeldRequests) = capacity
  /\ \E r \in Reqs : pc[r] = "acquire"
  /\ \E q \in Reqs : outcome[q] \in {"failed", "aborted"}

\* C2: every admitted request releases the worker semaphore exactly once,
\* whichever way it ends (completion, engine error, client disconnect): none
\* ends without having released its slot and none releases it twice.
C2_ReleasedExactlyOnce ==
  \A r \in Reqs :
    /\ released[r] <= acquired[r]
    /\ Resolved(r) /\ acquired[r] = 1 => released[r] = 1

\* C3: when the engine raises while a request's outputs are consumed, the
\* exception does not leave the handler before the slot is released, and the
\* caller gets no success unit carrying the partial text.
C3_EngineErrorRecovered ==
  \A r \in Reqs :
    exception[r] = "EngineError" =>
      /\ ~Holds(r)
      /\ output[r] = None

\* C4: when the client of a streaming request disconnects, engine.abort is
\* invoked exactly once with that request's id, the request's slot is
\* released, and no partial output of the request is consumed or yielded
\* after the disconnect was detected.
C4_DisconnectCleanup ==
  \A r \in Reqs :
    outcome[r] = "aborted" =>
      /\ Len(units[r]) = disconnect_at[r]
      /\ consumed[r] = disconnect_at[r]
      /\ abort_count[request_id[r]] <= 1
      /\ released[r] <= 1
      /\ Resolved(r) => abort_count[request_id[r]] = 1 /\ released[r] = 1

C4_Witness ==
  \E r \in Reqs :
    /\ outcome[r] = "aborted"
    /\ Resolved(r)
    /\ 0 < disconnect_at[r]
    /\ disconnect_at[r] < Len(Outputs(r))

\* C5: cancellation cleanup is atomic as seen by other requests; in
\* particular no waiting request is admitted on the slot a cancelled request
\* freed before the engine has been told to abort the cancelled request.
C5_CleanupAtomic ==
  [][\A r \in Reqs, q \in Reqs :
       /\ outcome[r] = "aborted"
       /\ released[r] = 1
       /\ abort_count[request_id[r]] = 0
       /\ pc[q] = "acquire"
       => pc'[q] = "acquire"]_vars

\* C6: every engine call made for a request (engine.generate and
\* engine.abort) happens while the request holds its admission slot.
C6_EngineCallsHoldSlot == \A c \in engine_calls : c.held

\* C7: at most `capacity` requests have been submitted to the engine and not
\* yet released their slot; with capacity 1, of two submitted requests one
\* has released its slot.
C7_SubmittedWithinCapacity ==
  /\ Cardinality({r \in Reqs : Submitted(r) /\ released[r] = 0}) <= capacity
  /\ \A r \in Reqs, q \in Reqs :
       capacity = 1 /\ r # q /\ Submitted(r) /\ Submitted(q)
         => released[r] = 1 \/ released[q] = 1

C7_Witness ==
  /\ capacity = 1
  /\ \E r \in Reqs, q \in Reqs :
       /\ r # q
       /\ Submitted(r) /\ released[r] = 1
       /\ Submitted(q) /\ released[q] = 0

\* C8: no sequence of successful, failed and aborted requests leaves slots
\* permanently unavailable: whenever no request is in flight the semaphore
\* has all its slots free again.
C8_SlotsReturn ==
  (semaphore.made = 1 /\ \A r \in Reqs : pc[r] \in {"idle", "done"})
    => semaphore.value = capacity

\* C9: the unit returned by generate equals the last unit generate_stream
\* yields for the same prompt and sampling configuration, with its sentinel
\* removed: same text, error_code and usage.
C9_GenerateEqualsLastStreamUnit ==
  \A r \in Reqs :
    kind[r] = "generate" /\ outcome[r] = "completed" =>
      /\ output[r] = Ret(params[r].echo, Last(Outputs(r)))
      /\ \A q \in Reqs :
           kind[q] = "stream" /\ outcome[q] = "completed" /\ params[q] = params[r]
             => /\ Last(Last(units[q])) = NUL
                /\ output[r] = json_loads(DropLast(Last(units[q])))

C9_Witness ==
  \E r \in Reqs, q \in Reqs :
    /\ kind[r] = "generate" /\ outcome[r] = "completed"
    /\ kind[q] = "stream" /\ outcome[q] = "completed"
    /\ params[q] = params[r]
    /\ Len(units[q]) >= 2

\* C10: generate_stream yields exactly one encoded unit per request output of
\* the engine, in the engine's order: the i-th unit carries the i-th output.
C10_UnitsInEngineOrder ==
  \A r \in Reqs :
    /\ Len(units[r]) = consumed[r]
    /\ \A i \in 1..Len(units[r]) :
         LET unit == json_loads(DropLast(units[r][i]))
             out == Outputs(r)[i]
         IN /\ Last(units[r][i]) = NUL
            /\ unit.error_code = 0
            /\ unit.text = (IF params[r].echo THEN out.prompt ELSE <<>>)
                             \o out.outputs[1].text

C10_Witness ==
  \E r \in Reqs :
    /\ kind[r] = "stream"
    /\ outcome[r] = "completed"
    /\ Len(units[r]) >= 2

\* C11: a request with a malformed prompt or sampling configuration is
\* rejected before admission: its error is raised without the request ever
\* having acquired a slot.
C11_RejectedBeforeAdmission ==
  \A r \in Reqs :
    exception[r] \in {"KeyError", "ValueError"} => acquired[r] = 0

\* C12: the top_p handed to the engine is 1.0 when temperature <= epsilon and
\* otherwise max(top_p, epsilon): temperature 0 with top_p 0.3 gives 1.0,
\* temperature 0.7 with top_p 0 gives epsilon, and it is never 0.
C12_TopPNormalized ==
  (sampling.stage = "built" /\ sampling.out.error = "none") =>
    LET temperature == IF sampling.in.temperature.type = "absent" THEN One
                       ELSE sampling.in.temperature.micro
        top_p == IF sampling.in.top_p.type = "absent" THEN One
                 ELSE sampling.in.top_p.micro
        out == sampling.out.top_p
    IN /\ temperature <= Epsilon => out = One
       /\ temperature > Epsilon /\ top_p >= Epsilon => out = top_p
       /\ temperature > Epsilon /\ top_p < Epsilon => out = Epsilon
       /\ temperature = 0 /\ top_p = 300000 => out = One
       /\ temperature = 700000 /\ top_p = 0 => out = Epsilon
       /\ out > 0
       /\ sampling.out.temperature = temperature

C12_Witness ==
  /\ sampling.stage = "built"
  /\ sampling.in.temperature = Number(Epsilon)
  /\ sampling.in.top_p = Number(0)
  /\ sampling.out.top_p = One

\* C13: stop = "STOP" and stop = ["STOP"] give the same one-element set of
\* stop strings {"STOP"}, and the same stop set once the decoded stop tokens
\* are merged in; an absent stop, "" and [] contribute no stop string.
C13_StopStringsNormalized ==
  (sampling.stage = "built" /\ sampling.out.error = "none") =>
    LET in == sampling.in
        tokens == DecodedStops(StopTokenIds(in.stop_token_ids, in.eos_token_id))
    IN /\ in.stop \in {StopStr("STOP"), StopList(<<"STOP">>)} =>
            /\ sampling.out.stop_strings = {"STOP"}
            /\ sampling.out.stop = {"STOP"} \cup tokens
            /\ tokens = {} => sampling.out.stop = {"STOP"}
       /\ in.stop \in {NoStop, StopStr(""), StopList(<<>>)} =>
            /\ sampling.out.stop_strings = {}
            /\ sampling.out.stop = tokens

C13_Witness ==
  /\ sampling.stage = "built"
  /\ sampling.in.stop = StopStr("STOP")
  /\ sampling.in.stop_token_ids = NoIds
  /\ sampling.in.eos_token_id = NullId
  /\ sampling.out.stop = {"STOP"}

\* C14: when the tokenizer's eos token id is known its decoded string is in
\* the stop set, whatever stop_token_ids the caller gave, and every caller
\* stop token id that is not null is decoded into the same stop set as the
\* stop strings.
C14_StopTokensMerged ==
  (sampling.stage = "built" /\ sampling.out.error = "none") =>
    LET in == sampling.in IN
      /\ in.eos_token_id # NullId => Decode(in.eos_token_id) \in sampling.out.stop
      /\ \A i \in 1..Len(in.stop_token_ids.ids) :
           in.stop_token_ids.ids[i] # NullId
             => Decode(in.stop_token_ids.ids[i]) \in sampling.out.stop
      /\ sampling.out.stop_strings \subseteq sampling.out.stop

C14_Witness ==
  /\ sampling.stage = "built"
  /\ sampling.in.eos_token_id = 1
  /\ sampling.in.stop_token_ids = Ids(<<NullId, 3>>)
  /\ sampling.in.stop = StopList(<<"STOP", "\n">>)
  /\ sampling.out.stop = {"STOP", "\n", "END", "</s>"}

\* C15: a stream of units, each encoded as JSON and followed by one sentinel
\* byte, split on the sentinel and parsed frame by frame gives back the texts
\* in order; the sentinel occurs only at the end of each unit, also when a
\* text holds a NUL character.
C15_FramingRoundTrip ==
  /\ framing.stage \in {"streaming", "decoded"} =>
       Cardinality(Sentinels(framing.stream)) = Len(framing.texts)
  /\ framing.stage = "decoded" =>
       framing.decoded = [error |-> "none", texts |-> framing.texts]

C15_Witness ==
  /\ framing.stage = "decoded"
  /\ Len(framing.texts) >= 2
  /\ \E i \in 1..Len(framing.texts) : NUL \in Range(framing.texts[i])
  /\ framing.decoded.texts = framing.texts

\* C16: count_token, worker_get_status and model_details never acquire or
\* release a slot: a step of any of them leaves the semaphore and every
\* request unchanged, and each of them can answer in every state, also while
\* all slots are held and a request waits in acquire.
C16_EndpointsTakeNoSlot ==
  /\ [][reply' # reply => UNCHANGED handler_vars]_vars
  /\ [](/\ ENABLED (\E prompt \in {PromptA, PromptC} : CountToken(prompt))
        /\ ENABLED WorkerStatus
        /\ ENABLED ModelDetails)

C16_Witness ==
  /\ Cardinality(HeldRequests) = capacity
  /\ \E r \in Reqs : pc[r] = "acquire"
  /\ reply.op = "worker_get_status"
  /\ reply.value.load = capacity

\* C17: the heart beat is started exactly when no_register is false; a tick,
\* sent or failed, reads the load and leaves the semaphore and every request
\* unchanged; and whenever the heart beat is started the next tick can be
\* taken, also after a failed one.
C17_HeartBeatIndependent ==
  /\ [](heart_beat.started = ~no_register)
  /\ [][heart_beat' # heart_beat => UNCHANGED handler_vars]_vars
  /\ [](heart_beat.started => ENABLED HeartBeatTick(TRUE) /\ ENABLED HeartBeatTick(FALSE))
  /\ [](heart_beat.load <= capacity)

C17_Witness ==
  /\ ~no_register
  /\ heart_beat.prev = "failed"
  /\ heart_beat.last = "ok"
  /\ heart_beat.load > 0
  /\ \E r \in Reqs : outcome[r] = "completed" /\ pc[r] = "done"

\* The lifecycle state of a request, as a rank: 0 before admission (and for
\* a request turned away before it), 1 ADMITTED, 2 SUBMITTED, 3 STREAMING,
\* 4 COMPLETED, FAILED or ABORTED.
Terminals == {"completed", "failed", "aborted"}

LifecycleRank(pc_r, consumed_r, outcome_r) ==
  IF outcome_r \in Terminals THEN 4
  ELSE IF pc_r = "consume" /\ consumed_r > 0 THEN 3
  ELSE IF pc_r = "consume" THEN 2
  ELSE IF pc_r = "submit" THEN 1
  ELSE 0

\* C18: a request never moves backwards in ADMITTED, SUBMITTED, STREAMING,
\* terminal; it is submitted to the engine only while it has acquired its
\* slot and under the id drawn for it; once COMPLETED, FAILED or ABORTED its
\* state stays the same one, and no further unit is yielded for it.
C18_LifecycleOrder ==
  /\ [][\A r \in Reqs :
          /\ LifecycleRank(pc'[r], consumed'[r], outcome'[r])
               >= LifecycleRank(pc[r], consumed[r], outcome[r])
          /\ LifecycleRank(pc'[r], consumed'[r], outcome'[r]) \in {2, 3}
               => LifecycleRank(pc[r], consumed[r], outcome[r]) \in {1, 2, 3}
          /\ outcome[r] \in Terminals =>
               /\ outcome'[r] = outcome[r]
               /\ units'[r] = units[r]
               /\ consumed'[r] = consumed[r]]_vars
  /\ [](\A c \in engine_calls :
          c.op = "generate" =>
            /\ acquired[c.req] = 1
            /\ c.id = request_id[c.req]
            /\ c.id \in RequestIds)

C18_Witness ==
  \E r1, r2 \in Reqs :
    /\ outcome[r1] = "completed" /\ pc[r1] = "done" /\ Len(units[r1]) = 2
    /\ outcome[r2] = "aborted" /\ pc[r2] = "done"
    /\ Len(units[r2]) = 1 /\ Len(Outputs(r2)) = 2

\* C19: when a request has completed and its handler is through, engine.abort
\* was called exactly once for its id, after its slot was released; the abort
\* changes neither the state of the request nor its output.
C19_AbortAfterCompletion ==
  /\ [](\A r \in Reqs :
          (outcome[r] = "completed" /\ pc[r] = "done") =>
            /\ abort_count[request_id[r]] = 1
            /\ released[r] = 1
            /\ \A c \in engine_calls :
                 (c.op = "abort" /\ c.req = r) => (~c.held /\ c.id = request_id[r])
            /\ \E c \in engine_calls : c.op = "abort" /\ c.req = r
            /\ kind[r] = "generate" => output[r] = GenerateResult(units[r]))
  /\ [][\A r \in Reqs :
          (outcome[r] = "completed" /\ abort_count'[request_id[r]] # abort_count[request_id[r]])
            => /\ outcome'[r] = "completed"
               /\ output'[r] = output[r]
               /\ units'[r] = units[r]
               /\ released'[r] = released[r]]_vars

C19_Witness ==
  \E r1, r2 \in Reqs :
    /\ kind[r1] = "generate" /\ kind[r2] = "stream"
    /\ \A r \in {r1, r2} :
         /\ outcome[r] = "completed" /\ pc[r] = "done"
         /\ units[r] # <<>>
         /\ abort_count[request_id[r]] = 1
    /\ output[r1] = GenerateResult(units[r1])

\* C20: every call of engine.generate and engine.abort made for a request
\* carries the id drawn for that request when it was admitted, an id no other
\* request has; and a step that ends or aborts one request changes no other
\* request.
C20_RequestIdentity ==
  /\ [](\A c \in engine_calls :
          /\ c.id = request_id[c.req]
          /\ c.id \in RequestIds
          /\ \A r \in Reqs \ {c.req} : request_id[r] # c.id)
  /\ [][\A r \in Reqs :
          (\/ outcome'[r] # outcome[r]
           \/ IF request_id[r] \in RequestIds
              THEN abort_count'[request_id[r]] # abort_count[request_id[r]]
              ELSE FALSE)
            => \A r2 \in Reqs \ {r} :
                 /\ pc'[r2] = pc[r2]
                 /\ outcome'[r2] = outcome[r2]
                 /\ units'[r2] = units[r2]
                 /\ consumed'[r2] = consumed[r2]
                 /\ request_id[r2] \in RequestIds
                      => abort_count'[request_id[r2]] = abort_count[request_id[r2]]]_vars

C20_Witness ==
  \E r1, r2 \in Reqs :
    /\ r1 # r2
    /\ outcome[r1] = "aborted" /\ abort_count[request_id[r1]] = 1
    /\ pc[r2] = "consume" /\ consumed[r2] >= 1
    /\ abort_count[request_id[r2]] = 0
    /\ [op |-> "generate", id |-> request_id[r2], req |-> r2, held |-> TRUE] \in engine_calls

\* C21: the free slots of the semaphore are within 0..C and, together with
\* the slots acquired and not yet released, make C; no request releases
\* more often than it acquired.
C21_FreePlusHeldIsCapacity ==
  LET free == SemaphoreNow.value IN
    /\ free \in 0..capacity
    /\ free + Cardinality(HeldRequests) = capacity
    /\ \A r \in Reqs : released[r] <= acquired[r] /\ acquired[r] <= 1

C21_Witness ==
  /\ semaphore.made = 1
  /\ semaphore.value = 1
  /\ capacity = 2
  /\ \E r1, r2 \in Reqs :
       /\ released[r1] = 1
       /\ Holds(r2) /\ exception[r2] = "EngineError"

\* C22: the semaphore is created at most once, by the first request that
\* reaches acquire, with the worker's limit as its capacity, and every
\* request that has acquired a slot took it from that one semaphore.
C22_SemaphoreCreatedOnce ==
  /\ semaphore.made \in {0, 1}
  /\ semaphore.made = 0 <=> \A r \in Reqs : acquired[r] = 0
  /\ semaphore.made = 1 =>
       semaphore.value = Semaphore(capacity) - Cardinality(HeldRequests)

C22_Witness ==
  /\ semaphore.made = 1
  /\ capacity = 2
  /\ semaphore.value = 0
  /\ \A r \in {1, 2} : Holds(r) /\ pc[r] \in {"submit", "consume"}

\* C23: a non-streaming request whose engine sequence ends without any
\* output returns no result: generate fails because its last unit was never
\* bound, and the request is left as an engine failure leaves it (failed,
\* nothing returned, slot not released, no abort sent).
C23_EmptySequenceFails ==
  \A r \in Reqs :
    /\ (kind[r] = "generate" /\ pc[r] \in {"abort", "done"} /\ Outputs(r) = <<>>) =>
         /\ outcome[r] = "failed"
         /\ output[r] = None
         /\ exception[r] \in {"UnboundLocalError", "EngineError"}
    /\ exception[r] = "UnboundLocalError" =>
         /\ kind[r] = "generate"
         /\ Outputs(r) = <<>>
         /\ units[r] = <<>>
    /\ (kind[r] = "generate" /\ exception[r] \in {"UnboundLocalError", "EngineError"}) =>
         /\ outcome[r] = "failed"
         /\ pc[r] = "done"
         /\ output[r] = None
         /\ released[r] = 0
         /\ Holds(r)
         /\ abort_count[request_id[r]] = 0
         /\ ~\E c \in engine_calls : c.op = "abort" /\ c.req = r

C23_Witness ==
  \E r1, r2 \in Reqs :
    /\ kind[r1] = "generate" /\ exception[r1] = "UnboundLocalError"
    /\ kind[r2] = "generate" /\ exception[r2] = "EngineError"
    /\ released[r1] = released[r2]
    /\ output[r1] = output[r2]

====
